---- MODULE Spec2Model ----
(***************************************************************************)
(* A model of xport.py: the IBM <-> IEEE floating point codec              *)
(* (ibm_to_ieee, ieee_to_ibm) and the observation stream of the reader     *)
(* (reader.__iter__, reader._read_observations).                           *)
(*                                                                         *)
(* 64-bit words are kept in limbs, because TLC's integers are 32 bits:     *)
(*   an IBM word is  top (bits 56..63), hi (bits 28..55), lo (bits 0..27); *)
(*   an IEEE word is sign (bit 63), exp (bits 52..62), hi (bits 28..51),   *)
(*   lo (bits 0..27).                                                      *)
(***************************************************************************)
EXTENDS Integers, Sequences, FiniteSets, TLC

VARIABLES
    \* ---- the reader ----
    data,       \* the bytes of the file that follow the OBS header
    variables,  \* reader._variables, built by the header parser
    fp,         \* the position of reader._fp in data
    gen,        \* the generator of the current iteration: none, active, done, error
    err,        \* the exception that ended the generator ("" when none)
    count,      \* the local variable count of _read_observations
    rows,       \* the rows the current generator yielded, in order
    start,      \* fp when the current iteration began
    reads,      \* calls of fp.read(blocksize) by the current generator
    iters,      \* calls of reader.__iter__ so far
    event,      \* the branch taken by the last loop pass: "", row, short, sentinel, decode
    blockAt,    \* fp before the last fp.read(blocksize)
    total,      \* full blocks taken as rows since the OBS header, by every generator
    \* ---- the codec ----
    mode,       \* which function is exercised: reader, enc (encode then decode), dec
    cx,         \* the float given to ieee_to_ibm
    craw,       \* the bytes given to ibm_to_ieee
    cpc,        \* start, encoded, decoded
    cibm,       \* the result of ieee_to_ibm
    cres        \* the result of ibm_to_ieee

readerVars == <<data, variables, fp, gen, err, count, rows, start, reads, iters,
                event, blockAt, total>>
codecVars == <<cx, craw, cpc, cibm, cres>>
vars == <<readerVars, codecVars, mode>>

-----------------------------------------------------------------------------
(* Bounds of the model *)

MaxRows == 3
MaxPad == 80
MaxIters == 2
FracBits == 2

-----------------------------------------------------------------------------
(* Arithmetic helpers *)

Pow2(n) == 2 ^ n

Min(a, b) == IF a < b THEN a ELSE b

RECURSIVE BitOr(_, _)
BitOr(a, b) ==
    IF a = 0 THEN b
    ELSE IF b = 0 THEN a
    ELSE 2 * BitOr(a \div 2, b \div 2) + (IF a % 2 = 1 \/ b % 2 = 1 THEN 1 ELSE 0)

Bit(x, n) == (x \div Pow2(n)) % 2

Zeros(n) == [i \in 1..n |-> 0]

-----------------------------------------------------------------------------
(* Floats: an IEEE binary64 as its fields *)

Float(s, e, h, l) == [sign |-> s, exp |-> e, hi |-> h, lo |-> l]

PosZero == Float(0, 0, 0, 0)

\* float('nan'): 0x7ff8000000000000
NaN == Float(0, 2047, Pow2(23), 0)

IsNaN(x) == x.exp = 2047 /\ (x.hi # 0 \/ x.lo # 0)

IsInf(x) == x.exp = 2047 /\ x.hi = 0 /\ x.lo = 0

\* ieee == 0.0 is true of both zeros
IsZero(x) == x.exp = 0 /\ x.hi = 0 /\ x.lo = 0

Ok(v) == [err |-> "", val |-> v]

Raise(e, v) == [err |-> e, val |-> v]

-----------------------------------------------------------------------------
(* ibm_to_ieee *)

\* ibm.ljust(8, b'\x00')
ljust8(raw) == IF Len(raw) >= 8 THEN raw ELSE raw \o Zeros(8 - Len(raw))

\* bits 28..55 of the word unpacked from the 8 bytes
MantHi(b) == b[2] * Pow2(20) + b[3] * Pow2(12) + b[4] * 16 + (b[5] \div 16)

\* bits 0..27
MantLo(b) == (b[5] % 16) * Pow2(24) + b[6] * Pow2(16) + b[7] * 256 + b[8]

MissingChars == {95, 46} \cup (65..90)

\* the if/elif chain on bits 55, 54, 53
ShiftOf(hi) ==
    IF Bit(hi, 27) = 1 THEN 3
    ELSE IF Bit(hi, 26) = 1 THEN 2
    ELSE IF Bit(hi, 25) = 1 THEN 1
    ELSE 0

\* mantissa >>= shift, on the limbs
ShrHi(hi, s) == hi \div Pow2(s)

ShrLo(hi, lo, s) == (lo \div Pow2(s)) + (hi % Pow2(s)) * Pow2(28 - s)

\* mantissa &= 0xffefffffffffffff: bit 52 is bit 24 of the high limb
ClearHidden(hi) == hi - Bit(hi, 24) * Pow2(24)

\* mutant: the right shifts of the mantissa are not added to the exponent
IeeeExpNoShift(exponent, shift) == (exponent - 65) * 4 + 1023

\* exponent -= 65; exponent <<= 2; exponent += shift + 1023
IeeeExp(exponent, shift) == (exponent - 65) * 4 + shift + 1023

\* sign | (exponent << 52) | mantissa
ComposeIeee(sign, exponent, hi, lo) ==
    Float(sign, BitOr(exponent, hi \div Pow2(24)), hi % Pow2(24), lo)

\* mutant: the sign bit is ignored, so the IBM negative zero decodes to 0.0
ZeroOrMissingAnySign(first) ==
    IF first % 128 = 0 THEN Ok(PosZero)
    ELSE IF first \in MissingChars THEN Ok(NaN)
    ELSE Raise("ValueError: Neither zero nor NaN", PosZero)

ZeroOrMissing(first) ==
    IF first = 0 THEN Ok(PosZero)
    ELSE IF first \in MissingChars THEN Ok(NaN)
    ELSE Raise("ValueError: Neither zero nor NaN", PosZero)

ibm_to_ieee(raw) ==
    LET ibm == ljust8(raw)
        sign == ibm[1] \div 128
        exponent == ibm[1] % 128
        hi == MantHi(ibm)
        lo == MantLo(ibm)
        shift == ShiftOf(hi)
        shi == ShrHi(hi, shift)
        slo == ShrLo(hi, lo, shift)
    IN  IF hi = 0 /\ lo = 0
        THEN ZeroOrMissing(ibm[1])
        ELSE Ok(ComposeIeee(sign, IeeeExp(exponent, shift), ClearHidden(shi), slo))

-----------------------------------------------------------------------------
(* ieee_to_ibm *)

\* mutant: the overflow test is off by one
OverflowsOffByOne(exponent) == exponent >= 248

Overflows(exponent) == exponent > 248

Underflows(exponent) == exponent < -260

\* struct.pack('>Q', sign | exponent | mantissa), the word given in limbs
PackIbm(top, hi, lo) ==
    << top,
       hi \div Pow2(20), (hi \div Pow2(12)) % 256, (hi \div 16) % 256,
       (hi % 16) * 16 + (lo \div Pow2(24)),
       (lo \div Pow2(16)) % 256, (lo \div 256) % 256, lo % 256 >>

\* from the restored hidden bit to the packed bytes
EncodeFinite(x) ==
    LET exponent == x.exp - 1023
        mhi == BitOr(Pow2(24), x.hi)
        quotient == exponent \div 4
        remainder == exponent % 4
        lo2 == x.lo * Pow2(remainder)
        shi == mhi * Pow2(remainder) + (lo2 \div Pow2(28))
        slo == lo2 % Pow2(28)
        ibmexp == quotient + 1 + 64
    IN  PackIbm(BitOr(x.sign * 128, ibmexp), shi, slo)

ieee_to_ibm(x) ==
    IF IsZero(x) THEN Ok(Zeros(8))
    ELSE IF IsNaN(x) THEN Ok(<<95>> \o Zeros(7))
    ELSE IF IsInf(x) THEN Raise("NotImplementedError: Cannot convert infinity", <<>>)
    ELSE IF Overflows(x.exp - 1023) THEN Raise("Overflow", <<>>)
    ELSE IF Underflows(x.exp - 1023) THEN Raise("Underflow", <<>>)
    ELSE Ok(EncodeFinite(x))

-----------------------------------------------------------------------------
(* Files and positions *)

RecLen == 80

SPACE == 32

Spaces(n) == [i \in 1..n |-> SPACE]

\* set(block): the set of the bytes of a byte string
ByteSet(b) == {b[i] : i \in DOMAIN b}

\* fp.read(n), n >= 0, with the file at position p: up to n bytes
FpRead(d, p, n) == SubSeq(d, p + 1, Min(p + n, Len(d)))

\* fp.read(): the remainder of the file
FpReadAll(d, p) == SubSeq(d, p + 1, Len(d))

\* the position of the file after a read that returned block
Tell(p, block) == p + Len(block)

\* b[a:z] for 0 <= a <= z
PySlice(b, a, z) == SubSeq(b, a + 1, Min(z, Len(b)))

-----------------------------------------------------------------------------
(* Variables and rows *)

Variable(n, num, p, s) == [name |-> n, numeric |-> num, position |-> p, size |-> s]

RECURSIVE SumSizes(_, _)
SumSizes(vs, i) == IF i > Len(vs) THEN 0 ELSE vs[i].size + SumSizes(vs, i + 1)

\* sum(v.size for v in variables)
BlockSize(vs) == SumSizes(vs, 1)

Whitespace == {9, 10, 11, 12, 13, 32}

\* bytes.rstrip(): trailing ASCII whitespace removed
RECURSIVE rstrip(_)
rstrip(b) ==
    IF Len(b) > 0 /\ b[Len(b)] \in Whitespace THEN rstrip(SubSeq(b, 1, Len(b) - 1))
    ELSE b

\* a character value is kept as its code points (ISO-8859-1 maps byte n to n)
parse_field(raw, v) == IF v.numeric THEN ibm_to_ieee(raw) ELSE Ok(rstrip(raw))

Chunk(block, v) == PySlice(block, v.position, v.position + v.size)

ParsedFields(block, vs) == [i \in 1..Len(vs) |-> parse_field(Chunk(block, vs[i]), vs[i])]

\* Row._make raises the first field's error
RowError(block, vs) ==
    LET f == ParsedFields(block, vs)
        bad == {i \in 1..Len(vs) : f[i].err # ""}
    IN  IF bad = {} THEN ""
        ELSE f[CHOOSE i \in bad : \A j \in bad : i <= j].err

MakeRow(block, vs) == [i \in 1..Len(vs) |-> ParsedFields(block, vs)[i].val]

-----------------------------------------------------------------------------
(* The files and variable tables the reader is run on *)

Tables ==
    { << >>,
      << Variable("x", TRUE, 0, 8) >>,
      << Variable("x", TRUE, 0, 8), Variable("c", FALSE, 8, 4) >>,
      << Variable("c", FALSE, 0, 32), Variable("x", TRUE, 32, 8) >>,
      << Variable("x", TRUE, 0, 2), Variable("c", FALSE, 2, 1) >>,
      << Variable("c", FALSE, 0, 80) >> }

\* a numeric field of row k: a missing value every third row, else a number
NumBytes(k, size, bad) ==
    SubSeq(IF bad THEN <<128, 0, 0, 0, 0, 0, 0, 0>>
           ELSE IF k % 3 = 0 THEN <<46, 0, 0, 0, 0, 0, 0, 0>>
           ELSE <<65, 16 * ((k % 15) + 1), k % 256, 0, 0, 0, 0, k % 256>>,
           1, size)

CharBytes(k, size) == <<65 + (k % 26)>> \o Spaces(size - 1)

RECURSIVE RowBytes(_, _, _, _)
RowBytes(vs, i, k, bad) ==
    IF i > Len(vs) THEN << >>
    ELSE (IF vs[i].numeric THEN NumBytes(k, vs[i].size, bad) ELSE CharBytes(k, vs[i].size))
         \o RowBytes(vs, i + 1, k, bad)

RECURSIVE RowsBytes(_, _, _, _)
RowsBytes(vs, k, n, badrow) ==
    IF k > n THEN << >>
    ELSE RowBytes(vs, 1, k, k = badrow) \o RowsBytes(vs, k + 1, n, badrow)

\* what follows the padding: nothing, or the first byte of a second member's header
Junk == { << >>, <<72>> }

File(vs, n, badrow, pad, junk) == RowsBytes(vs, 1, n, badrow) \o Spaces(pad) \o junk

-----------------------------------------------------------------------------
(* The reader *)

CodecIdle ==
    /\ cx = PosZero
    /\ craw = << >>
    /\ cpc = "idle"
    /\ cibm = Ok(<< >>)
    /\ cres = Ok(PosZero)

\* the reader as reader.__init__ leaves it: headers parsed, fp after the OBS header
InitReader ==
    /\ mode = "reader"
    /\ variables \in Tables
    /\ \E n \in 0..MaxRows, pad \in 0..MaxPad, junk \in Junk :
         \E badrow \in 0..n : data = File(variables, n, badrow, pad, junk)
    /\ fp = 0
    /\ gen = "none"
    /\ err = ""
    /\ count = 0
    /\ rows = << >>
    /\ start = 0
    /\ reads = 0
    /\ iters = 0
    /\ event = ""
    /\ blockAt = 0
    /\ total = 0
    /\ CodecIdle

\* reader.__iter__: a new generator; count starts at 0, the file stays where it is
Iter ==
    /\ mode = "reader"
    /\ iters < MaxIters
    /\ iters' = iters + 1
    /\ gen' = "active"
    /\ err' = ""
    /\ count' = 0
    /\ rows' = << >>
    /\ start' = fp
    /\ reads' = 0
    /\ event' = ""
    /\ blockAt' = fp
    /\ UNCHANGED <<data, variables, fp, total, codecVars, mode>>

Block == FpRead(data, fp, BlockSize(variables))

\* the outcome of the checks of the short-read branch
ShortReadError(block, blocksize, cnt) ==
    IF ByteSet(block) # ByteSet(Spaces(1))
    THEN "ValueError: Incomplete record"
    ELSE IF (cnt * blocksize) % RecLen # 0
            /\ Len(block) # RecLen - ((cnt * blocksize) % RecLen)
    THEN "ValueError: Insufficient padding at end of file"
    ELSE ""

\* the outcome of the checks of the sentinel branch
SentinelError(rest, blocksize, cnt) ==
    IF ByteSet(rest) # ByteSet(Spaces(1))
    THEN "NotImplementedError: Cannot read multiple members."
    ELSE IF blocksize + Len(rest) # RecLen - ((cnt * blocksize) % RecLen)
    THEN "ValueError: Incorrect padding at end of file"
    ELSE ""

Finish(e) ==
    /\ err' = e
    /\ gen' = IF e = "" THEN "done" ELSE "error"

\* mutant: the break of the short-read branch is missing
ShortReadNoBreak ==
    /\ mode = "reader"
    /\ gen = "active"
    /\ Len(Block) < BlockSize(variables)
    /\ err' = ShortReadError(Block, BlockSize(variables), count)
    /\ gen' = IF err' = "" THEN "active" ELSE "error"
    /\ fp' = Tell(fp, Block)
    /\ reads' = reads + 1
    /\ event' = "short"
    /\ blockAt' = fp
    /\ UNCHANGED <<data, variables, count, rows, start, iters, total, codecVars, mode>>

\* len(block) < blocksize
ShortRead ==
    /\ mode = "reader"
    /\ gen = "active"
    /\ Len(Block) < BlockSize(variables)
    /\ Finish(ShortReadError(Block, BlockSize(variables), count))
    /\ fp' = Tell(fp, Block)
    /\ reads' = reads + 1
    /\ event' = "short"
    /\ blockAt' = fp
    /\ UNCHANGED <<data, variables, count, rows, start, iters, total, codecVars, mode>>

\* block == sentinel
SentinelBlock ==
    /\ mode = "reader"
    /\ gen = "active"
    /\ Len(Block) >= BlockSize(variables)
    /\ Block = Spaces(BlockSize(variables))
    /\ LET rest == FpReadAll(data, Tell(fp, Block))
       IN  /\ Finish(SentinelError(rest, BlockSize(variables), count))
           /\ fp' = Tell(Tell(fp, Block), rest)
    /\ reads' = reads + 1
    /\ event' = "sentinel"
    /\ blockAt' = fp
    /\ UNCHANGED <<data, variables, count, rows, start, iters, total, codecVars, mode>>

FullBlock ==
    /\ mode = "reader"
    /\ gen = "active"
    /\ Len(Block) >= BlockSize(variables)
    /\ Block # Spaces(BlockSize(variables))

\* count += 1, then the row is built and yielded
YieldRow ==
    /\ FullBlock
    /\ RowError(Block, variables) = ""
    /\ count' = count + 1
    /\ total' = total + 1
    /\ rows' = Append(rows, MakeRow(Block, variables))
    /\ fp' = Tell(fp, Block)
    /\ reads' = reads + 1
    /\ event' = "row"
    /\ blockAt' = fp
    /\ UNCHANGED <<data, variables, gen, err, start, iters, codecVars, mode>>

\* mutant: the row is yielded with the fields decoded so far before the error surfaces
DecodeErrorYieldsRow ==
    /\ FullBlock
    /\ RowError(Block, variables) # ""
    /\ count' = count + 1
    /\ total' = total + 1
    /\ rows' = Append(rows, MakeRow(Block, variables))
    /\ Finish(RowError(Block, variables))
    /\ fp' = Tell(fp, Block)
    /\ reads' = reads + 1
    /\ event' = "decode"
    /\ blockAt' = fp
    /\ UNCHANGED <<data, variables, start, iters, codecVars, mode>>

\* count += 1, then _parse_field raises inside Row._make: nothing is yielded
DecodeError ==
    /\ FullBlock
    /\ RowError(Block, variables) # ""
    /\ count' = count + 1
    /\ total' = total + 1
    /\ Finish(RowError(Block, variables))
    /\ fp' = Tell(fp, Block)
    /\ reads' = reads + 1
    /\ event' = "decode"
    /\ blockAt' = fp
    /\ UNCHANGED <<data, variables, rows, start, iters, codecVars, mode>>

Next == Iter \/ ShortRead \/ SentinelBlock \/ YieldRow \/ DecodeError

Spec == InitReader /\ [][Next]_vars

-----------------------------------------------------------------------------
(* The codec: ieee_to_ibm followed by ibm_to_ieee, and ibm_to_ieee alone *)

\* fractions whose top FracBits bits are free and whose other bits are all 0 or all 1
FracHis == { t * Pow2(24 - FracBits) + fill * (Pow2(24 - FracBits) - 1) :
             t \in 0..(Pow2(FracBits) - 1), fill \in {0, 1} }

Floats ==
    { Float(s, e, h, IF h % 2 = 1 THEN Pow2(28) - 1 ELSE 0) :
      s \in {0, 1}, e \in 0..2047, h \in FracHis }

\* fields of 2 to 8 bytes whose bytes after the first are all zero
ZeroFractionFields == { <<first>> \o Zeros(len - 1) : first \in 0..255, len \in 2..8 }

\* fields with a second byte and a filling, normalized or not
OtherFields ==
    { <<first, second>> \o [i \in 1..(len - 2) |-> fill] :
      first \in {0, 32, 64, 65, 70, 127, 193, 255},
      second \in {0, 1, 2, 4, 8, 16, 31, 32, 64, 128, 255},
      fill \in {0, 255}, len \in 2..8 }

ReaderIdle ==
    /\ data = << >>
    /\ variables = << >>
    /\ fp = 0
    /\ gen = "none"
    /\ err = ""
    /\ count = 0
    /\ rows = << >>
    /\ start = 0
    /\ reads = 0
    /\ iters = 0
    /\ event = ""
    /\ blockAt = 0
    /\ total = 0

InitCodec ==
    /\ ReaderIdle
    /\ cpc = "start"
    /\ cibm = Ok(<< >>)
    /\ cres = Ok(PosZero)
    /\ \/ mode = "enc" /\ cx \in Floats /\ craw = << >>
       \/ mode = "dec" /\ cx = PosZero /\ craw \in ZeroFractionFields \cup OtherFields

Encode ==
    /\ mode = "enc"
    /\ cpc = "start"
    /\ cibm' = ieee_to_ibm(cx)
    /\ cpc' = "encoded"
    /\ UNCHANGED <<readerVars, mode, cx, craw, cres>>

DecodeBack ==
    /\ mode = "enc"
    /\ cpc = "encoded"
    /\ cibm.err = ""
    /\ cres' = ibm_to_ieee(cibm.val)
    /\ cpc' = "decoded"
    /\ UNCHANGED <<readerVars, mode, cx, craw, cibm>>

Decode ==
    /\ mode = "dec"
    /\ cpc = "start"
    /\ cres' = ibm_to_ieee(craw)
    /\ cpc' = "decoded"
    /\ UNCHANGED <<readerVars, mode, cx, craw, cibm>>

CodecNext == Encode \/ DecodeBack \/ Decode

CodecSpec == InitCodec /\ [][CodecNext]_vars

-----------------------------------------------------------------------------
(* Properties of the observation stream.                                   *)
(* The tables of the model have valid, distinct names, so the namedtuple   *)
(* of line 321 is always built; a generator abandoned by a new call of     *)
(* reader.__iter__ is not resumed.                                         *)

Terminated == gen \in {"done", "error"}

\* the bytes of the padding read by the pass that ended the generator
PaddingRead == fp - blockAt

\* C1: whenever row production ends without an error, the bytes it consumed
\* (count x B for the rows plus the padding bytes read) are a multiple of 80.
C1_ConsumedMultipleOf80 ==
    gen = "done" => (count * BlockSize(variables) + PaddingRead) % RecLen = 0

\* C2: a read of B bytes that returns no byte at all ends row production
\* cleanly, with no error, after exactly the count rows read so far.
C2_EmptyBlockIsCleanEnd ==
    (event = "short" /\ fp = blockAt) =>
        (gen = "done" /\ err = "" /\ Len(rows) = count)

\* the remainder of the file read by the sentinel branch
RestAfterSentinel == SubSeq(data, blockAt + BlockSize(variables) + 1, Len(data))

\* C3: on the sentinel path (a full block of B >= 1 spaces) the "Cannot read
\* multiple members" error is raised exactly when the remainder of the file
\* holds a non-space byte; when the sentinel block is the whole padding the
\* stream ends cleanly.
C3_MultipleMembersIffNonSpace ==
    (event = "sentinel" /\ BlockSize(variables) >= 1) =>
        /\ (err = "NotImplementedError: Cannot read multiple members.")
             <=> (\E i \in DOMAIN RestAfterSentinel : RestAfterSentinel[i] # SPACE)
        /\ (/\ RestAfterSentinel = << >>
            /\ BlockSize(variables)
                 = RecLen - ((count * BlockSize(variables)) % RecLen))
             => gen = "done"

\* the decoding, in file order, of the full blocks of d from position p up to
\* the first short block, all-space block or block that does not decode
RECURSIVE RefRows(_, _, _)
RefRows(d, p, vs) ==
    LET B == BlockSize(vs)
        blk == SubSeq(d, p + 1, p + B)
    IN  IF B = 0 \/ Len(d) - p < B THEN << >>
        ELSE IF \A i \in 1..B : blk[i] = SPACE THEN << >>
        ELSE IF RowError(blk, vs) # "" THEN << >>
        ELSE <<MakeRow(blk, vs)>> \o RefRows(d, p + B, vs)

C9_CountIsRowsSinceObsHeader ==
    event \in {"short", "sentinel"} => count = total

\* C10: one iteration makes at most floor(remaining / B) + 1 block reads when
\* B >= 1 (one read when B = 0), emits at most floor(remaining / B) rows, and
\* has consumed a full block for every pass that did not end it; every pass
\* is one more read, so the iteration ends within that many passes.
C10_BoundedReads ==
    LET B == BlockSize(variables)
        remaining == Len(data) - start
    IN  /\ B >= 1 => (reads <= (remaining \div B) + 1 /\ Len(rows) <= remaining \div B)
        /\ B = 0 => (reads <= 1 /\ rows = << >>)
        /\ gen = "active" => (fp = start + reads * B /\ reads * B <= remaining)

\* C10's case: an iteration over B >= 1 that yielded at least three rows and
\* ended cleanly on the read after the last row.
C10_Witness ==
    /\ gen = "done"
    /\ BlockSize(variables) >= 1
    /\ Len(rows) >= 3
    /\ reads = Len(rows) + 1

-----------------------------------------------------------------------------
(* Properties of the codec *)

Encoded == mode = "enc" /\ cpc \in {"encoded", "decoded"}

\* C5 as stated: for every binary64 input, Overflow iff E > 248 and Underflow
\* iff E < -260, E = e - 1023.
C5_OverflowUnderflowEveryInput ==
    Encoded =>
        /\ (cibm.err = "Overflow") <=> (cx.exp - 1023 > 248)
        /\ (cibm.err = "Underflow") <=> (cx.exp - 1023 < -260)

\* C5, amended: for every input that is neither a zero, a NaN nor an infinity,
\* Overflow iff E > 248 and Underflow iff E < -260; a zero, a NaN and an
\* infinity raise neither.
C5_OverflowUnderflowFiniteNonZero ==
    Encoded =>
        IF (cx.exp = 0 /\ cx.hi = 0 /\ cx.lo = 0) \/ cx.exp = 2047
        THEN cibm.err \notin {"Overflow", "Underflow"}
        ELSE /\ (cibm.err = "Overflow") <=> (cx.exp - 1023 > 248)
             /\ (cibm.err = "Underflow") <=> (cx.exp - 1023 < -260)

\* C5's case: a finite non-zero float just above the limit, E = 249, overflows.
C5_Witness ==
    /\ Encoded
    /\ cx.exp - 1023 = 249
    /\ cx.hi # 0
    /\ cibm.err = "Overflow"

\* C6 as stated: for every finite x with 2^-260 <= |x| < 2^(4*248) the
\* encoding succeeds and decoding it gives x back.
C6_RoundTripBelow2Pow992 ==
    (mode = "enc" /\ cx.exp - 1023 \in -260..(4 * 248 - 1)) =>
        /\ cpc \in {"encoded", "decoded"} => cibm.err = ""
        /\ cpc = "decoded" => cres = Ok(cx)

\* C6, amended: for every finite x with 2^-260 <= |x| < 2^249 the encoding
\* succeeds and decoding it gives x back, bit for bit.
C6_RoundTripBelow2Pow249 ==
    (mode = "enc" /\ cx.exp - 1023 \in -260..248) =>
        /\ cpc \in {"encoded", "decoded"} => cibm.err = ""
        /\ cpc = "decoded" => cres = Ok(cx)

\* C6's case: a negative float with E = 247 and low fraction bits set came back
\* unchanged from the round trip.
C6_Witness ==
    /\ mode = "enc"
    /\ cpc = "decoded"
    /\ cx.sign = 1
    /\ cx.exp - 1023 = 247
    /\ cx.lo # 0
    /\ cres = Ok(cx)

ZeroFraction(raw) == \A i \in 2..Len(raw) : raw[i] = 0

\* C7: a field of 2 to 8 bytes with a zero fraction decodes to +0.0 when its
\* first byte is 0x00, to NaN when it is '_', '.' or 'A'..'Z', and fails with
\* the invalid-missing-value error for every other first byte.
C7_ZeroFractionByFirstByte ==
    (mode = "dec" /\ cpc = "decoded" /\ ZeroFraction(craw)) =>
        IF craw[1] = 0 THEN cres = Ok(Float(0, 0, 0, 0))
        ELSE IF craw[1] \in {95, 46} \cup (65..90)
        THEN cres.err = "" /\ cres.val.exp = 2047 /\ cres.val.hi + cres.val.lo > 0
        ELSE cres.err = "ValueError: Neither zero nor NaN"

\* C7's case: the IBM negative zero, as a field of 2 bytes, was rejected.
C7_Witness ==
    /\ mode = "dec"
    /\ cpc = "decoded"
    /\ ZeroFraction(craw)
    /\ craw[1] = 128
    /\ Len(craw) = 2
    /\ cres.err # ""

RECURSIVE Msb(_)
Msb(x) == IF x <= 1 THEN 0 ELSE 1 + Msb(x \div 2)

\* the position of the most significant 1-bit of a non-zero 56-bit fraction
FracMsb(hi, lo) == IF hi > 0 THEN 28 + Msb(hi) ELSE Msb(lo)

RECURSIVE ShlLimbs(_, _, _)
ShlLimbs(hi, lo, n) ==
    IF n = 0 THEN <<hi, lo>>
    ELSE ShlLimbs(2 * hi + ((2 * lo) \div Pow2(28)), (2 * lo) % Pow2(28), n - 1)

\* the fraction with its most significant 1-bit moved to bit 52, low bits cut
Truncate53(hi, lo) ==
    LET p == FracMsb(hi, lo)
    IN  IF p >= 52
        THEN <<hi \div Pow2(p - 52),
               (lo \div Pow2(p - 52)) + (hi % Pow2(p - 52)) * Pow2(28 - (p - 52))>>
        ELSE ShlLimbs(hi, lo, 52 - p)

\* sign x frac x 16^(ibm_exp - 64) / 2^56, truncated to 53 significant bits
IbmValue(raw) ==
    LET ibm == ljust8(raw)
        hi == MantHi(ibm)
        lo == MantLo(ibm)
        m == Truncate53(hi, lo)
    IN  Float(ibm[1] \div 128,
              4 * ((ibm[1] % 128) - 64) - 56 + FracMsb(hi, lo) + 1023,
              m[1] - Pow2(24), m[2])

NonZeroFraction(raw) == MantHi(ljust8(raw)) # 0 \/ MantLo(ljust8(raw)) # 0

\* C8: for every non-zero fraction the shift moves the most significant 1-bit
\* into bit 52 and the result is sign x frac x 16^(ibm_exp - 64) / 2^56
\* truncated to 53 significant bits, unnormalized fractions included.
C8_ShiftAlignsEveryFraction ==
    (mode = "dec" /\ cpc = "decoded" /\ NonZeroFraction(craw)) =>
        LET hi == MantHi(ljust8(craw))
        IN  /\ ShrHi(hi, ShiftOf(hi)) \in Pow2(24)..(Pow2(25) - 1)
            /\ cres = Ok(IbmValue(craw))

====
